---- MODULE Spec2Model ----
(***************************************************************************)
(* The Grid editor of src/src/features/map/map.tsx: a sparse cell store    *)
(* (a Map from "row,col" keys to {color, hasOutline}), a linear history of *)
(* snapshots with a pointer, and the handlers that edit them.              *)
(*                                                                         *)
(* One action is one handler invocation followed by the re-render, so the  *)
(* values a handler closes over are the values of the current state.       *)
(* A JavaScript Map is modelled as a TLA+ function (its insertion order,   *)
(* which no handler's result depends on, is not kept); a key `${row},${col}`*)
(* is the pair <<row, col>>.  Sequences are 1-based here and 0-based in    *)
(* the code: historyIndex keeps the code's 0-based value.                  *)
(***************************************************************************)
EXTENDS Integers, Sequences, FiniteSets, TLC

\* ------------------------------------------------------------ bounds
\* The sliders allow 1..20 rows and columns and the grid starts 10 x 10;
\* the model scales both down.
MaxCount == 2
InitCount == 1
\* Commits (updateHistory calls) in one behaviour of the whole editor, and in
\* one with the settings left alone.
MaxCommits == 2
HistCommits == 4
\* Commits in one behaviour of the editor with its sliders and no paint
\* settings.
GridCommits == 2
\* The inactive cells of a store the fill is run on in other orders.
OrderHoles == 3
\* The grid of App.tsx (20 x 20 in the code) and the cells selected at once.
AppCount == 2
MaxSelected == 4
\* The two editors side by side: inactive cells of the grid they start
\* from, and the edits they make.
PairHoles == 1
PairCommits == 2
\* The commits after which no further edit is started, where two handlers may
\* run before the next render.
BatchCommits == 3
\* The grids of the flood-fill specification, and how far from empty or from
\* full the stores it starts from are (every store of a 3 x 3 grid is).
FillCount == 3
FillSparse == 4
\* The records of a store the toggle and clamp specification starts from.
StoreRecords == 2

\* ------------------------------------------------------------ constants
MinCount == 1
\* The cell size slider: 10..100, 30 at the start.
MinCellSize == 10
MaxCellSize == 100
InitCellSize == 30
Colors == {"#000000", "#FF0000"}
InitColor == "#000000"
Undefined == "undefined"

\* ------------------------------------------------------------ keys, maps
Key(row, col) == <<row, col>>
KeyRow(key) == key[1]
KeyCol(key) == key[2]

EmptyMap == [k \in {} |-> Undefined]
MapHas(m, k) == k \in DOMAIN m
\* Map.get: the value, or undefined; <<v>> is a value and << >> is undefined
MapGet(m, k) == IF k \in DOMAIN m THEN <<m[k]>> ELSE << >>
MapSet(m, k, v) == [x \in (DOMAIN m) \cup {k} |-> IF x = k THEN v ELSE m[x]]
MapDelete(m, k) == [x \in (DOMAIN m) \ {k} |-> m[x]]

\* currentState?.color and currentState?.hasOutline
OptColor(state) == IF state = << >> THEN Undefined ELSE state[1].color
OptOutline(state) == IF state = << >> THEN Undefined ELSE state[1].hasOutline

Min(a, b) == IF a < b THEN a ELSE b
\* Array.prototype.slice(0, end) for end >= 0
Slice(s, end) == SubSeq(s, 1, Min(end, Len(s)))

\* The state of the Grid editor of map.tsx, the bookkeeping of the
\* verification (nextId, pruned, lastOp, pre), and the state of two of the
\* other editors of the repository: selectedCells is the list of App.tsx,
\* selectedSet the Set that part_001 calls selectedCells.
VARIABLES cellSize, rowCount, colCount, selectedColor, showOutline,
          history, historyIndex,
          nextId, pruned, lastOp, pre,
          selectedCells, selectedSet

vars == <<cellSize, rowCount, colCount, selectedColor, showOutline,
          history, historyIndex, nextId, pruned, lastOp, pre,
          selectedCells, selectedSet>>

config == <<cellSize, rowCount, colCount, selectedColor, showOutline>>

\* The other editors, which no handler of map.tsx touches.
others == <<selectedCells, selectedSet>>

\* const cellStates = useMemo(() => history[historyIndex].cells, ...)
cellStates == history[historyIndex + 1].cells

\* ------------------------------------------------------------ initial state
Entry(cells, action, id) == [cells |-> cells, lastAction |-> action, id |-> id]

\* id stands for the identity of the entry object (and of its new Map): every
\* entry pushed is a fresh object, the initial one is object 0.
InitialEntry == Entry(EmptyMap, <<"Initial state">>, 0)

Init ==
    /\ cellSize = InitCellSize
    /\ rowCount = InitCount
    /\ colCount = InitCount
    /\ selectedColor = InitColor
    /\ showOutline = TRUE
    /\ history = <<InitialEntry>>
    /\ historyIndex = 0
    /\ nextId = 1
    /\ pruned = {}
    /\ lastOp = [name |-> "init"]
    /\ pre = [index |-> 0, len |-> 1]
    /\ selectedCells = << >>
    /\ selectedSet = {}

\* The bookkeeping of the verification, no state of the editor: the handler
\* that ran last (a redo also keeps the name of the one it followed), and the
\* pointer and the length it started from.
Record(op) ==
    /\ lastOp' = op
    /\ pre' = [index |-> historyIndex, len |-> Len(history)]

\* ------------------------------------------------------------ history
\* Faulty variants of UpdateHistory: the slice ends one entry early, and the
\* slice is left out.
UpdateHistoryShortSlice(newCellStates, action) ==
    /\ history' = Append(Slice(history, historyIndex),
                         Entry(newCellStates, action, nextId))
    /\ historyIndex' = historyIndex + 1
    /\ nextId' = nextId + 1
    /\ pruned' = pruned \cup
                 {history[i].id : i \in (historyIndex + 2)..Len(history)}

\* Faulty variant of UpdateHistory: the history keeps its last three entries
\* and drops the older ones.
UpdateHistoryCapped(newCellStates, action) ==
    LET h == Append(Slice(history, historyIndex + 1),
                    Entry(newCellStates, action, nextId))
    IN  /\ history' = IF Len(h) > 3 THEN Tail(h) ELSE h
        /\ historyIndex' = Len(history') - 1
        /\ nextId' = nextId + 1
        /\ pruned' = pruned \cup
                     {history[i].id : i \in (historyIndex + 2)..Len(history)}

\* Faulty variant of UpdateHistory: the handler has written its edit into the
\* Map of the current snapshot before handing it over (no copy was made).
UpdateHistoryAliases(newCellStates, action) ==
    /\ history' = Append([Slice(history, historyIndex + 1)
                             EXCEPT ![historyIndex + 1].cells = newCellStates],
                         Entry(newCellStates, action, nextId))
    /\ historyIndex' = historyIndex + 1
    /\ nextId' = nextId + 1
    /\ pruned' = pruned \cup
                 {history[i].id : i \in (historyIndex + 2)..Len(history)}

UpdateHistoryNoSlice(newCellStates, action) ==
    /\ history' = Append(history, Entry(newCellStates, action, nextId))
    /\ historyIndex' = historyIndex + 1
    /\ nextId' = nextId + 1
    /\ pruned' = pruned \cup
                 {history[i].id : i \in (historyIndex + 2)..Len(history)}

\* setHistory(prev => prev.slice(0, historyIndex + 1) ++ [entry]);
\* setHistoryIndex(prev => prev + 1).  pruned collects the entries that lay
\* beyond the pointer, whatever the slice does with them.
UpdateHistory(newCellStates, action) ==
    /\ history' = Append(Slice(history, historyIndex + 1),
                         Entry(newCellStates, action, nextId))
    /\ historyIndex' = historyIndex + 1
    /\ nextId' = nextId + 1
    /\ pruned' = pruned \cup
                 {history[i].id : i \in (historyIndex + 2)..Len(history)}

NoCommit == UNCHANGED <<history, nextId, pruned>>

\* ------------------------------------------------------------ toggle
\* Faulty variants of the comparison: the outline flag is not compared, and
\* any record counts as a match (the toggle of the Set-based editors).
ToggleMatchesColorOnly(currentState, color, outline) ==
    OptColor(currentState) = color

ToggleMatchesAnyRecord(currentState, color, outline) ==
    currentState # << >>

\* currentState?.color === selectedColor && currentState?.hasOutline === showOutline
ToggleMatches(currentState, color, outline) ==
    /\ OptColor(currentState) = color
    /\ OptOutline(currentState) = outline

HandleCellToggle(row, col) ==
    LET key == Key(row, col)
        currentState == MapGet(cellStates, key)
    IN  /\ IF ToggleMatches(currentState, selectedColor, showOutline)
           THEN UpdateHistory(MapDelete(cellStates, key),
                              <<"Cleared cell", row, col>>)
           ELSE UpdateHistory(MapSet(cellStates, key,
                                     [color |-> selectedColor,
                                      hasOutline |-> showOutline]),
                              <<"Colored cell", row, col, selectedColor>>)
        /\ Record([name |-> "toggle", row |-> row, col |-> col])
        /\ UNCHANGED config

\* ------------------------------------------------------------ clamp
\* Faulty variants of the filter: no test of the column, || for &&, and a
\* record kept under the key `${col},${row}`.
ClampCellsRowsOnly(cells, rc, cc) ==
    [k \in {x \in DOMAIN cells : KeyRow(x) < rc} |-> cells[k]]

ClampCellsEitherBound(cells, rc, cc) ==
    [k \in {x \in DOMAIN cells : KeyRow(x) < rc \/ KeyCol(x) < cc} |-> cells[k]]

ClampCellsSwappedKey(cells, rc, cc) ==
    [k \in {Key(KeyCol(x), KeyRow(x)) :
                x \in {y \in DOMAIN cells : KeyRow(y) < rc /\ KeyCol(y) < cc}}
        |-> cells[Key(KeyCol(k), KeyRow(k))]]

ClampCells(cells, rc, cc) ==
    [k \in {x \in DOMAIN cells : KeyRow(x) < rc /\ KeyCol(x) < cc} |-> cells[k]]

\* Faulty variant of ClearOutOfBoundsCells: nothing is committed when no
\* record is out of bounds.
ClearOutOfBoundsCellsIfAny ==
    /\ IF ClampCells(cellStates, rowCount, colCount) = cellStates
       THEN UNCHANGED <<history, historyIndex, nextId, pruned>>
       ELSE UpdateHistory(ClampCells(cellStates, rowCount, colCount),
                          <<"Cleared out-of-bounds cells">>)
    /\ Record([name |-> "clamp"])
    /\ UNCHANGED config

ClearOutOfBoundsCells ==
    /\ UpdateHistory(ClampCells(cellStates, rowCount, colCount),
                     <<"Cleared out-of-bounds cells">>)
    /\ Record([name |-> "clamp"])
    /\ UNCHANGED config

\* ------------------------------------------------------------ clear all
\* Faulty variants of ClearAllCells: the store before the clear is committed
\* too, as an entry of its own, and the history is started anew.
ClearAllCellsTwice ==
    /\ history' = Append(Append(Slice(history, historyIndex + 1),
                                Entry(cellStates, <<"pre-clear">>, nextId)),
                         Entry(EmptyMap, <<"Cleared all cells">>, nextId + 1))
    /\ historyIndex' = historyIndex + 2
    /\ nextId' = nextId + 2
    /\ pruned' = pruned \cup
                 {history[i].id : i \in (historyIndex + 2)..Len(history)}
    /\ Record([name |-> "clearAll", before |-> cellStates])
    /\ UNCHANGED config

ClearAllCellsReset ==
    /\ history' = <<Entry(EmptyMap, <<"Cleared all cells">>, nextId)>>
    /\ historyIndex' = 0
    /\ nextId' = nextId + 1
    /\ pruned' = pruned \cup {history[i].id : i \in 1..Len(history)}
    /\ Record([name |-> "clearAll", before |-> cellStates])
    /\ UNCHANGED config

\* updateHistory(new Map(), "Cleared all cells"): one commit.  The store the
\* clear found is kept with the name of the handler, for the verification.
ClearAllCells ==
    /\ UpdateHistory(EmptyMap, <<"Cleared all cells">>)
    /\ Record([name |-> "clearAll", before |-> cellStates])
    /\ UNCHANGED config

\* ------------------------------------------------------------ flood fill
IsColored(cells, row, col) == MapHas(cells, Key(row, col))
IsValid(row, col, rc, cc) == row >= 0 /\ row < rc /\ col >= 0 /\ col < cc

\* Faulty variant of the directions: left and right are missing.
DirectionsUpDown == << <<-1, 0>>, <<1, 0>> >>

Directions == << <<-1, 0>>, <<1, 0>>, <<0, -1>>, <<0, 1>> >>

\* dfs returns a boolean and mutates the visited set it is handed: the pair
\* of both is the result here.  A false result returns at once, leaving the
\* set as far as the traversal got.
RECURSIVE Dfs(_, _, _, _, _, _)
RECURSIVE DfsDirs(_, _, _, _, _, _, _)

\* Faulty variant of dfs: a coloured cell is added to the visited set too.
DfsMarksColored(row, col, visited, cells, rc, cc) ==
    IF ~IsValid(row, col, rc, cc)
    THEN [ok |-> FALSE, visited |-> visited]
    ELSE IF IsColored(cells, row, col)
    THEN [ok |-> TRUE, visited |-> visited \cup {Key(row, col)}]
    ELSE IF Key(row, col) \in visited
    THEN [ok |-> TRUE, visited |-> visited]
    ELSE DfsDirs(row, col, 1, visited \cup {Key(row, col)}, cells, rc, cc)

Dfs(row, col, visited, cells, rc, cc) ==
    IF ~IsValid(row, col, rc, cc)
    THEN [ok |-> FALSE, visited |-> visited]
    ELSE IF IsColored(cells, row, col)
    THEN [ok |-> TRUE, visited |-> visited]
    ELSE IF Key(row, col) \in visited
    THEN [ok |-> TRUE, visited |-> visited]
    ELSE DfsDirs(row, col, 1, visited \cup {Key(row, col)}, cells, rc, cc)

\* for (const [dx, dy] of directions) if (!dfs(...)) return false; return true
DfsDirs(row, col, d, visited, cells, rc, cc) ==
    IF d > Len(Directions)
    THEN [ok |-> TRUE, visited |-> visited]
    ELSE LET r == Dfs(row + Directions[d][1], col + Directions[d][2],
                      visited, cells, rc, cc)
         IN  IF ~r.ok
             THEN r
             ELSE DfsDirs(row, col, d + 1, r.visited, cells, rc, cc)

\* for (const cell of visited) newCellStates.set(cell, {color, hasOutline})
Paint(m, visited, color, outline) ==
    [x \in (DOMAIN m) \cup visited |->
        IF x \in visited
        THEN [color |-> color, hasOutline |-> outline]
        ELSE m[x]]

\* The row-major scan of the grid, from its i-th cell on; isColored reads
\* cellStates (cells), the paint goes to the copy (newCellStates).
RECURSIVE FillScan(_, _, _, _, _, _, _)
FillScan(i, newCellStates, cells, rc, cc, color, outline) ==
    IF i >= rc * cc
    THEN newCellStates
    ELSE LET row == i \div cc
             col == i % cc
             r == Dfs(row, col, {}, cells, rc, cc)
         IN  IF ~IsColored(cells, row, col) /\ r.ok
             THEN FillScan(i + 1, Paint(newCellStates, r.visited, color, outline),
                           cells, rc, cc, color, outline)
             ELSE FillScan(i + 1, newCellStates, cells, rc, cc, color, outline)

\* Faulty variant of the copy: new Map() for new Map(cellStates).
FillCellsFromEmpty(cells, rc, cc, color, outline) ==
    FillScan(0, EmptyMap, cells, rc, cc, color, outline)

\* const newCellStates = new Map(cellStates); then the scan
FillCells(cells, rc, cc, color, outline) ==
    FillScan(0, cells, cells, rc, cc, color, outline)

FillEnclosedAreas ==
    /\ UpdateHistory(FillCells(cellStates, rowCount, colCount,
                               selectedColor, showOutline),
                     <<"Filled enclosed areas">>)
    /\ Record([name |-> "fill"])
    /\ UNCHANGED config

\* ------------------------------------------------------------ flood fill, its orders as parameters
\* fillEnclosedAreas once more, with what the code fixes made a parameter:
\* dirs is the directions array of dfs, scan the order in which the two
\* loops visit the cells of the grid.  dfs also counts its invocations
\* (calls) and its visited.add (expanded); run holds the result, the visited
\* set and the two counters.
NewRun == [ok |-> TRUE, visited |-> {}, calls |-> 0, expanded |-> 0]

RECURSIVE DfsOrdered(_, _, _, _, _, _, _)
RECURSIVE DfsDirsOrdered(_, _, _, _, _, _, _, _)

\* Faulty variant of dfs: the visited set is not tested.  The traversal is
\* cut off, as not closed, once it has expanded more cells than the grid has.
DfsOrderedNoVisitedTest(row, col, run, cells, rc, cc, dirs) ==
    LET here == [run EXCEPT !.calls = @ + 1]
    IN  IF ~IsValid(row, col, rc, cc)
        THEN [here EXCEPT !.ok = FALSE]
        ELSE IF IsColored(cells, row, col)
        THEN [here EXCEPT !.ok = TRUE]
        ELSE IF here.expanded > rc * cc
        THEN [here EXCEPT !.ok = FALSE]
        ELSE DfsDirsOrdered(row, col, 1,
                            [here EXCEPT !.visited = @ \cup {Key(row, col)},
                                         !.expanded = @ + 1],
                            cells, rc, cc, dirs)

DfsOrdered(row, col, run, cells, rc, cc, dirs) ==
    LET here == [run EXCEPT !.calls = @ + 1]
    IN  IF ~IsValid(row, col, rc, cc)
        THEN [here EXCEPT !.ok = FALSE]
        ELSE IF IsColored(cells, row, col)
        THEN [here EXCEPT !.ok = TRUE]
        ELSE IF Key(row, col) \in here.visited
        THEN [here EXCEPT !.ok = TRUE]
        ELSE DfsDirsOrdered(row, col, 1,
                            [here EXCEPT !.visited = @ \cup {Key(row, col)},
                                         !.expanded = @ + 1],
                            cells, rc, cc, dirs)

DfsDirsOrdered(row, col, d, run, cells, rc, cc, dirs) ==
    IF d > Len(dirs)
    THEN [run EXCEPT !.ok = TRUE]
    ELSE LET r == DfsOrdered(row + dirs[d][1], col + dirs[d][2],
                             run, cells, rc, cc, dirs)
         IN  IF ~r.ok
             THEN r
             ELSE DfsDirsOrdered(row, col, d + 1, r, cells, rc, cc, dirs)

\* for (row ...) for (col ...): the cells in row-major order; and the other
\* orders a scan is tried in.
RowMajor(rc, cc) == [i \in 1..(rc * cc) |-> Key((i - 1) \div cc, (i - 1) % cc)]
ColMajor(rc, cc) == [i \in 1..(rc * cc) |-> Key((i - 1) % rc, (i - 1) \div rc)]
Reverse(s) == [i \in 1..Len(s) |-> s[Len(s) + 1 - i]]
ScanOrders(rc, cc) == {RowMajor(rc, cc), Reverse(RowMajor(rc, cc)),
                       ColMajor(rc, cc), Reverse(ColMajor(rc, cc))}

\* The 24 orders of the four directions.
DirectionOrders ==
    {p \in [1..Len(Directions) -> {Directions[i] : i \in 1..Len(Directions)}] :
        \A i, j \in 1..Len(Directions) : p[i] = p[j] => i = j}

RECURSIVE FillScanOrdered(_, _, _, _, _, _, _, _, _)
RECURSIVE SharedVisited(_, _, _, _, _, _)

\* The visited set after the first i starts of a scan that hands one Set to
\* all of them.
SharedVisited(i, cells, rc, cc, dirs, scan) ==
    IF i = 0
    THEN {}
    ELSE LET seen == SharedVisited(i - 1, cells, rc, cc, dirs, scan)
         IN  IF IsColored(cells, scan[i][1], scan[i][2])
             THEN seen
             ELSE DfsOrdered(scan[i][1], scan[i][2],
                             [NewRun EXCEPT !.visited = seen],
                             cells, rc, cc, dirs).visited

\* Faulty variant of the scan: the visited Set is created once, before the
\* loops, and not for each start.
FillScanOrderedSharedVisited(i, newCellStates, cells, rc, cc, color, outline, dirs, scan) ==
    IF i > Len(scan)
    THEN newCellStates
    ELSE LET row == scan[i][1]
             col == scan[i][2]
             r == DfsOrdered(row, col,
                             [NewRun EXCEPT !.visited =
                                 SharedVisited(i - 1, cells, rc, cc, dirs, scan)],
                             cells, rc, cc, dirs)
         IN  IF ~IsColored(cells, row, col) /\ r.ok
             THEN FillScanOrdered(i + 1, Paint(newCellStates, r.visited, color, outline),
                                  cells, rc, cc, color, outline, dirs, scan)
             ELSE FillScanOrdered(i + 1, newCellStates,
                                  cells, rc, cc, color, outline, dirs, scan)

FillScanOrdered(i, newCellStates, cells, rc, cc, color, outline, dirs, scan) ==
    IF i > Len(scan)
    THEN newCellStates
    ELSE LET row == scan[i][1]
             col == scan[i][2]
             r == DfsOrdered(row, col, NewRun, cells, rc, cc, dirs)
         IN  IF ~IsColored(cells, row, col) /\ r.ok
             THEN FillScanOrdered(i + 1, Paint(newCellStates, r.visited, color, outline),
                                  cells, rc, cc, color, outline, dirs, scan)
             ELSE FillScanOrdered(i + 1, newCellStates,
                                  cells, rc, cc, color, outline, dirs, scan)

FillCellsOrdered(cells, rc, cc, color, outline, dirs, scan) ==
    FillScanOrdered(1, cells, cells, rc, cc, color, outline, dirs, scan)

FillEnclosedAreasOrdered(dirs, scan) ==
    /\ UpdateHistory(FillCellsOrdered(cellStates, rowCount, colCount,
                                      selectedColor, showOutline, dirs, scan),
                     <<"Filled enclosed areas">>)
    /\ Record([name |-> "fillOrdered", dirs |-> dirs, scan |-> scan])
    /\ UNCHANGED config

\* ------------------------------------------------------------ undo, redo, restore
\* Faulty variants of Undo: the guard is off by one, and the pointer wraps
\* around from the first entry to the last.
UndoWraps ==
    /\ IF historyIndex > 0
       THEN historyIndex' = historyIndex - 1
       ELSE historyIndex' = Len(history) - 1
    /\ NoCommit
    /\ Record([name |-> "undo"])
    /\ UNCHANGED config

UndoGuardOffByOne ==
    /\ IF historyIndex > 1
       THEN historyIndex' = historyIndex - 1
       ELSE UNCHANGED historyIndex
    /\ NoCommit
    /\ Record([name |-> "undo"])
    /\ UNCHANGED config

Undo ==
    /\ IF historyIndex > 0
       THEN historyIndex' = historyIndex - 1
       ELSE UNCHANGED historyIndex
    /\ NoCommit
    /\ Record([name |-> "undo"])
    /\ UNCHANGED config

\* Faulty variants of Redo: the guard lets the pointer pass the last index,
\* and the pointer goes to the last index at once.
RedoToEnd ==
    /\ IF historyIndex < Len(history) - 1
       THEN historyIndex' = Len(history) - 1
       ELSE UNCHANGED historyIndex
    /\ NoCommit
    /\ Record([name |-> "redo", after |-> lastOp.name])
    /\ UNCHANGED config

RedoPastEnd ==
    /\ IF historyIndex < Len(history)
       THEN historyIndex' = historyIndex + 1
       ELSE UNCHANGED historyIndex
    /\ NoCommit
    /\ Record([name |-> "redo", after |-> lastOp.name])
    /\ UNCHANGED config

Redo ==
    /\ IF historyIndex < Len(history) - 1
       THEN historyIndex' = historyIndex + 1
       ELSE UNCHANGED historyIndex
    /\ NoCommit
    /\ Record([name |-> "redo", after |-> lastOp.name])
    /\ UNCHANGED config

\* Faulty variants of RestoreHistory: the index is not tested against 0, and
\* the entries beyond the index are dropped.
RestoreHistoryNoLowerBound(index) ==
    /\ IF index < Len(history)
       THEN historyIndex' = index
       ELSE UNCHANGED historyIndex
    /\ NoCommit
    /\ Record([name |-> "restore", index |-> index])
    /\ UNCHANGED config

RestoreHistoryTruncates(index) ==
    /\ IF index >= 0 /\ index < Len(history)
       THEN /\ historyIndex' = index
            /\ history' = Slice(history, index + 1)
       ELSE UNCHANGED <<historyIndex, history>>
    /\ UNCHANGED <<nextId, pruned>>
    /\ Record([name |-> "restore", index |-> index])
    /\ UNCHANGED config

RestoreHistory(index) ==
    /\ IF index >= 0 /\ index < Len(history)
       THEN historyIndex' = index
       ELSE UNCHANGED historyIndex
    /\ NoCommit
    /\ Record([name |-> "restore", index |-> index])
    /\ UNCHANGED config

\* ------------------------------------------------------------ settings
\* Faulty variant of HandleCellSizeChange: no upper bound.
HandleCellSizeChangeNoUpperBound(newSize) ==
    /\ IF newSize >= MinCellSize
       THEN cellSize' = newSize
       ELSE UNCHANGED cellSize
    /\ UNCHANGED <<rowCount, colCount, selectedColor, showOutline, historyIndex>>
    /\ NoCommit
    /\ Record([name |-> "cellSize", value |-> newSize])

HandleCellSizeChange(newSize) ==
    /\ IF newSize >= MinCellSize /\ newSize <= MaxCellSize
       THEN cellSize' = newSize
       ELSE UNCHANGED cellSize
    /\ UNCHANGED <<rowCount, colCount, selectedColor, showOutline, historyIndex>>
    /\ NoCommit
    /\ Record([name |-> "cellSize", value |-> newSize])

HandleRowCountChange(newCount) ==
    /\ IF newCount >= MinCount /\ newCount <= MaxCount
       THEN rowCount' = newCount
       ELSE UNCHANGED rowCount
    /\ UNCHANGED <<cellSize, colCount, selectedColor, showOutline, historyIndex>>
    /\ NoCommit
    /\ Record([name |-> "rowCount", value |-> newCount])

HandleColCountChange(newCount) ==
    /\ IF newCount >= MinCount /\ newCount <= MaxCount
       THEN colCount' = newCount
       ELSE UNCHANGED colCount
    /\ UNCHANGED <<cellSize, rowCount, selectedColor, showOutline, historyIndex>>
    /\ NoCommit
    /\ Record([name |-> "colCount", value |-> newCount])

\* onClick={() => setSelectedColor(color)}
SetSelectedColor(color) ==
    /\ selectedColor' = color
    /\ UNCHANGED <<cellSize, rowCount, colCount, showOutline, historyIndex>>
    /\ NoCommit
    /\ Record([name |-> "color", value |-> color])

\* onChange={() => setShowOutline((prev) => !prev)}
ToggleShowOutline ==
    /\ showOutline' = ~showOutline
    /\ UNCHANGED <<cellSize, rowCount, colCount, selectedColor, historyIndex>>
    /\ NoCommit
    /\ Record([name |-> "outline"])

\* ------------------------------------------------------------ the editor
\* A cell is clickable when it is rendered: cellsData holds the cells of the
\* current rowCount x colCount grid.
ClickCell == \E row \in 0..(rowCount - 1), col \in 0..(colCount - 1) :
                HandleCellToggle(row, col)
ClickHistory == \E index \in -1..Len(history) : RestoreHistory(index)
SlideRowCount == \E newCount \in (MinCount - 1)..(MaxCount + 1) :
                    HandleRowCountChange(newCount)
SlideColCount == \E newCount \in (MinCount - 1)..(MaxCount + 1) :
                    HandleColCountChange(newCount)
\* The sizes asked for: the ends of the slider, the value next to each end
\* on either side, and the initial size.
CellSizes == {MinCellSize - 1, MinCellSize, InitCellSize,
              MaxCellSize, MaxCellSize + 1}
SlideCellSize == \E newSize \in CellSizes : HandleCellSizeChange(newSize)
PickColor == \E color \in Colors : SetSelectedColor(color)

\* The whole editor, every control.
Next ==
    \/ nextId <= MaxCommits /\ ClickCell /\ UNCHANGED others
    \/ nextId <= MaxCommits /\ ClearOutOfBoundsCells /\ UNCHANGED others
    \/ nextId <= MaxCommits /\ ClearAllCells /\ UNCHANGED others
    \/ nextId <= MaxCommits /\ FillEnclosedAreas /\ UNCHANGED others
    \/ Undo /\ UNCHANGED others
    \/ Redo /\ UNCHANGED others
    \/ ClickHistory /\ UNCHANGED others
    \/ SlideRowCount /\ UNCHANGED others
    \/ SlideColCount /\ UNCHANGED others
    \/ SlideCellSize /\ UNCHANGED others
    \/ PickColor /\ UNCHANGED others
    \/ ToggleShowOutline /\ UNCHANGED others

Spec == Init /\ [][Next]_vars

\* The editor with its settings left alone: the edits and the moves of the
\* pointer, for longer histories.
NextHist ==
    \/ nextId <= HistCommits /\ ClickCell /\ UNCHANGED others
    \/ nextId <= HistCommits /\ ClearOutOfBoundsCells /\ UNCHANGED others
    \/ nextId <= HistCommits /\ ClearAllCells /\ UNCHANGED others
    \/ nextId <= HistCommits /\ FillEnclosedAreas /\ UNCHANGED others
    \/ Undo /\ UNCHANGED others
    \/ Redo /\ UNCHANGED others
    \/ ClickHistory /\ UNCHANGED others

SpecHist == Init /\ [][NextHist]_vars

\* The editor with its sliders: clicks, clamps and the moves of the pointer
\* on a grid that grows and shrinks.
NextGrid ==
    \/ nextId <= GridCommits /\ ClickCell /\ UNCHANGED others
    \/ nextId <= GridCommits /\ ClearOutOfBoundsCells /\ UNCHANGED others
    \/ Undo /\ UNCHANGED others
    \/ Redo /\ UNCHANGED others
    \/ ClickHistory /\ UNCHANGED others
    \/ SlideRowCount /\ UNCHANGED others
    \/ SlideColCount /\ UNCHANGED others

SpecGrid == Init /\ [][NextGrid]_vars

\* The settings: every slider, the palette and the outline box, before and
\* after one click on a cell.
NextConfig ==
    \/ nextId <= 1 /\ ClickCell /\ UNCHANGED others
    \/ SlideRowCount /\ UNCHANGED others
    \/ SlideColCount /\ UNCHANGED others
    \/ SlideCellSize /\ UNCHANGED others
    \/ PickColor /\ UNCHANGED others
    \/ ToggleShowOutline /\ UNCHANGED others

SpecConfig == Init /\ [][NextConfig]_vars

\* ------------------------------------------------------------ two handlers before the next render
\* The handlers are closures of a render: historyIndex, history.length and
\* cellStates in their bodies are the values of that render (Render), while
\* the updaters they pass to setHistory and setHistoryIndex are applied, in
\* the order of the calls, to the state as the calls before them left it
\* (st).  One handler per render is UpdateHistory, Undo and Redo above.
Render == [index |-> historyIndex, len |-> Len(history), cells |-> cellStates]
Pending == [h |-> history, i |-> historyIndex, id |-> nextId]

\* prevHistory.slice(0, historyIndex + 1) with the historyIndex of the render
UpdateHistoryOn(st, r, newCellStates, action) ==
    [h |-> Append(Slice(st.h, r.index + 1), Entry(newCellStates, action, st.id)),
     i |-> st.i + 1,
     id |-> st.id + 1]

HandleCellToggleOn(st, r, row, col) ==
    LET key == Key(row, col)
        currentState == MapGet(r.cells, key)
    IN  IF ToggleMatches(currentState, selectedColor, showOutline)
        THEN UpdateHistoryOn(st, r, MapDelete(r.cells, key),
                             <<"Cleared cell", row, col>>)
        ELSE UpdateHistoryOn(st, r, MapSet(r.cells, key,
                                          [color |-> selectedColor,
                                           hasOutline |-> showOutline]),
                             <<"Colored cell", row, col, selectedColor>>)

\* if (historyIndex > 0) setHistoryIndex(prevIndex => prevIndex - 1)
UndoOn(st, r) == IF r.index > 0 THEN [st EXCEPT !.i = @ - 1] ELSE st

\* if (historyIndex < history.length - 1) setHistoryIndex(prevIndex => prevIndex + 1)
RedoOn(st, r) == IF r.index < r.len - 1 THEN [st EXCEPT !.i = @ + 1] ELSE st

Calls == {[name |-> "undo"], [name |-> "redo"]} \cup
         {[name |-> "toggle", row |-> row, col |-> col] :
              row \in 0..(rowCount - 1), col \in 0..(colCount - 1)}

Invoke(st, r, call) ==
    CASE call.name = "toggle" -> HandleCellToggleOn(st, r, call.row, call.col)
      [] call.name = "undo" -> UndoOn(st, r)
      [] call.name = "redo" -> RedoOn(st, r)

\* Two handlers of one render, called one after the other.
BatchTwo(first, second) ==
    LET st == Invoke(Invoke(Pending, Render, first), Render, second)
    IN  /\ history' = st.h
        /\ historyIndex' = st.i
        /\ nextId' = st.id
        /\ pruned' = pruned \cup
                     ({history[k].id : k \in 1..Len(history)} \
                      {st.h[k].id : k \in 1..Len(st.h)})
        /\ Record([name |-> "batch", first |-> first, second |-> second])
        /\ UNCHANGED config

\* The render reads history[historyIndex].cells: with the pointer off the
\* sequence it throws, and no handler runs any more.
Rendered == 0 <= historyIndex /\ historyIndex < Len(history)

NextBatch ==
    \/ Rendered /\ nextId <= BatchCommits /\ ClickCell /\ UNCHANGED others
    \/ Rendered /\ Undo /\ UNCHANGED others
    \/ Rendered /\ Redo /\ UNCHANGED others
    \/ /\ Rendered
       /\ nextId <= BatchCommits
       /\ \E first \in Calls, second \in Calls : BatchTwo(first, second)
       /\ UNCHANGED others

SpecBatch == Init /\ [][NextBatch]_vars

\* ------------------------------------------------------------ App.tsx
\* The array-based editor: selectedCells is a list of [row, col] pairs.
\* Faulty variant of findIndex: row and column are compared crosswise.
FindIndexSwapped(prevSelected, row, col) ==
    LET hits == {i \in 1..Len(prevSelected) :
                    prevSelected[i][1] = col /\ prevSelected[i][2] = row}
    IN  IF hits = {}
        THEN -1
        ELSE (CHOOSE i \in hits : \A j \in hits : i <= j) - 1

\* prevSelected.findIndex(cell => cell[0] === row && cell[1] === col): the
\* 0-based index of the first match, or -1
FindIndex(prevSelected, row, col) ==
    LET hits == {i \in 1..Len(prevSelected) :
                    prevSelected[i][1] = row /\ prevSelected[i][2] = col}
    IN  IF hits = {}
        THEN -1
        ELSE (CHOOSE i \in hits : \A j \in hits : i <= j) - 1

\* prevSelected.filter((_, index) => index !== cellIndex)
FilterOut(prevSelected, cellIndex) ==
    [i \in 1..(Len(prevSelected) - 1) |->
        IF i - 1 < cellIndex THEN prevSelected[i] ELSE prevSelected[i + 1]]

clickCell(row, col) ==
    /\ LET cellIndex == FindIndex(selectedCells, row, col)
       IN  selectedCells' = IF cellIndex # -1
                            THEN FilterOut(selectedCells, cellIndex)
                            ELSE Append(selectedCells, <<row, col>>)
    /\ Record([name |-> "clickCell", row |-> row, col |-> col])
    /\ UNCHANGED <<config, history, historyIndex, nextId, pruned, selectedSet>>

\* A click on one of the rects of the grid; the list is kept to MaxSelected
\* entries.
NextApp ==
    \E row \in 0..(AppCount - 1), col \in 0..(AppCount - 1) :
        /\ Len(selectedCells) < MaxSelected \/ FindIndex(selectedCells, row, col) # -1
        /\ clickCell(row, col)

SpecApp == Init /\ [][NextApp]_vars

\* ------------------------------------------------------------ part_001
\* The Set-based editor: selectedSet is its selectedCells, a Set of keys.  The
\* handlers below say what they do to that set; its grid is set by the same
\* guarded sliders as the grid of map.tsx, and the two editors are run side
\* by side on one rowCount and colCount.
\* Faulty variant of handleCellClick: a selected key is not deleted.
HandleCellClickAddOnly(row, col) ==
    selectedSet' = selectedSet \cup {Key(row, col)}

\* newSelected.has(key) ? newSelected.delete(key) : newSelected.add(key)
HandleCellClick(row, col) ==
    LET key == Key(row, col)
    IN  selectedSet' = IF key \in selectedSet
                       THEN selectedSet \ {key}
                       ELSE selectedSet \cup {key}

\* for (const cellKey of prevSelected) if (row < rowCount && col < colCount) add
SetClearOutOfBoundsCells ==
    selectedSet' = {cellKey \in selectedSet :
                        KeyRow(cellKey) < rowCount /\ KeyCol(cellKey) < colCount}

IsSelected(selected, row, col) == Key(row, col) \in selected

\* dfs of part_001: the boolean it returns and the visited set it leaves.
RECURSIVE SetDfs(_, _, _, _, _, _)
RECURSIVE SetDfsDirs(_, _, _, _, _, _, _)
SetDfs(row, col, visited, selected, rc, cc) ==
    IF ~IsValid(row, col, rc, cc)
    THEN [ok |-> FALSE, visited |-> visited]
    ELSE IF IsSelected(selected, row, col)
    THEN [ok |-> TRUE, visited |-> visited]
    ELSE IF Key(row, col) \in visited
    THEN [ok |-> TRUE, visited |-> visited]
    ELSE SetDfsDirs(row, col, 1, visited \cup {Key(row, col)}, selected, rc, cc)

SetDfsDirs(row, col, d, visited, selected, rc, cc) ==
    IF d > Len(Directions)
    THEN [ok |-> TRUE, visited |-> visited]
    ELSE LET r == SetDfs(row + Directions[d][1], col + Directions[d][2],
                         visited, selected, rc, cc)
         IN  IF ~r.ok
             THEN r
             ELSE SetDfsDirs(row, col, d + 1, r.visited, selected, rc, cc)

\* The two loops over the grid, from its i-th cell on; isSelected reads
\* selectedCells (selected), the visited cells go to the copy.
RECURSIVE SetFillScan(_, _, _, _, _)
SetFillScan(i, newSelectedCells, selected, rc, cc) ==
    IF i >= rc * cc
    THEN newSelectedCells
    ELSE LET row == i \div cc
             col == i % cc
             r == SetDfs(row, col, {}, selected, rc, cc)
         IN  IF ~IsSelected(selected, row, col) /\ r.ok
             THEN SetFillScan(i + 1, newSelectedCells \cup r.visited, selected, rc, cc)
             ELSE SetFillScan(i + 1, newSelectedCells, selected, rc, cc)

SetFillEnclosedAreas ==
    selectedSet' = SetFillScan(0, selectedSet, selectedSet, rowCount, colCount)

\* One user action on both editors.
PairToggle == \E row \in 0..(rowCount - 1), col \in 0..(colCount - 1) :
                  HandleCellToggle(row, col) /\ HandleCellClick(row, col)
PairClamp == ClearOutOfBoundsCells /\ SetClearOutOfBoundsCells
PairFill == FillEnclosedAreas /\ SetFillEnclosedAreas

\* ------------------------------------------------------------ the handlers as functions of the store
\* The handlers that compute a store read the current snapshot, the grid size
\* and the paint settings, and nothing of the history below the pointer.
\* These specifications start from a snapshot drawn from a bounded set, which
\* stands for the current one after any earlier edits, and apply a handler.
Universe(n) == (0..(n - 1)) \X (0..(n - 1))
Attrs == [color : Colors, hasOutline : BOOLEAN]

Drawn(cells) ==
    /\ history = <<Entry(cells, <<"Earlier edits">>, 0)>>
    /\ historyIndex = 0
    /\ nextId = 1
    /\ pruned = {}
    /\ lastOp = [name |-> "init"]
    /\ pre = [index |-> 0, len |-> 1]
    /\ selectedCells = << >>
    /\ selectedSet = {}

\* Flood fill: a FillCount x FillCount grid; any set of its cells, and
\* possibly the cell right of its first row that a wider grid left behind,
\* painted with the initial settings; any paint settings now.
FillUniverse == Universe(FillCount) \cup {<<0, FillCount>>}

InitFill ==
    /\ cellSize = InitCellSize
    /\ rowCount = FillCount
    /\ colCount = FillCount
    /\ selectedColor \in Colors
    /\ showOutline \in BOOLEAN
    /\ \E keys \in {K \in SUBSET FillUniverse :
                        \/ Cardinality(K \cap Universe(FillCount)) <= FillSparse
                        \/ Cardinality(Universe(FillCount) \ K) <= FillSparse} :
          Drawn([k \in keys |-> [color |-> InitColor, hasOutline |-> TRUE]])

\* Fill, and fill once more.
NextFill == nextId <= 2 /\ FillEnclosedAreas /\ UNCHANGED others

SpecFill == InitFill /\ [][NextFill]_vars

\* Flood fill in any order: a FillCount x FillCount grid with at most
\* OrderHoles inactive cells, the records painted with the initial settings
\* and the fill with another color; one fill, its directions in any of their
\* orders and its scan in any of four.
InitOrder ==
    /\ cellSize = InitCellSize
    /\ rowCount = FillCount
    /\ colCount = FillCount
    /\ selectedColor \in Colors \ {InitColor}
    /\ showOutline = TRUE
    /\ \E holes \in {H \in SUBSET Universe(FillCount) : Cardinality(H) <= OrderHoles} :
          Drawn([k \in Universe(FillCount) \ holes |->
                    [color |-> InitColor, hasOutline |-> TRUE]])

NextOrder ==
    /\ nextId <= 1
    /\ \E dirs \in DirectionOrders, scan \in ScanOrders(rowCount, colCount) :
          FillEnclosedAreasOrdered(dirs, scan)
    /\ UNCHANGED others

SpecOrder == InitOrder /\ [][NextOrder]_vars

\* The two editors side by side: a FillCount x FillCount grid with at most
\* PairHoles inactive cells, drawn in both with the initial paint settings,
\* which stay; the sliders first, then PairCommits edits.
InitPair ==
    /\ cellSize = InitCellSize
    /\ rowCount = FillCount
    /\ colCount = FillCount
    /\ selectedColor = InitColor
    /\ showOutline = TRUE
    /\ \E holes \in {H \in SUBSET Universe(FillCount) : Cardinality(H) <= PairHoles} :
          /\ history = <<Entry([k \in Universe(FillCount) \ holes |->
                                    [color |-> InitColor, hasOutline |-> TRUE]],
                               <<"Earlier edits">>, 0)>>
          /\ selectedSet = Universe(FillCount) \ holes
    /\ historyIndex = 0
    /\ nextId = 1
    /\ pruned = {}
    /\ lastOp = [name |-> "init"]
    /\ pre = [index |-> 0, len |-> 1]
    /\ selectedCells = << >>

NextPair ==
    \/ historyIndex = 0 /\ SlideRowCount /\ UNCHANGED others
    \/ historyIndex = 0 /\ SlideColCount /\ UNCHANGED others
    \/ nextId <= PairCommits /\ PairToggle /\ UNCHANGED selectedCells
    \/ nextId <= PairCommits /\ PairClamp /\ UNCHANGED selectedCells
    \/ nextId <= PairCommits /\ PairFill /\ UNCHANGED selectedCells

SpecPair == InitPair /\ [][NextPair]_vars

\* Toggle and clamp: any store of at most StoreRecords records in the
\* universe, any grid size, any paint settings.
InitStore ==
    /\ cellSize = InitCellSize
    /\ rowCount \in MinCount..MaxCount
    /\ colCount \in MinCount..MaxCount
    /\ selectedColor \in Colors
    /\ showOutline \in BOOLEAN
    /\ \E keys \in {K \in SUBSET Universe(MaxCount) : Cardinality(K) <= StoreRecords} :
          \E cells \in [keys -> Attrs] : Drawn(cells)

\* One click or one clamp, and the same once more.
NextStore ==
    \/ historyIndex = 0 /\ ClickCell /\ UNCHANGED others
    \/ /\ historyIndex = 1
       /\ lastOp.name = "toggle"
       /\ HandleCellToggle(lastOp.row, lastOp.col)
       /\ UNCHANGED others
    \/ /\ nextId <= 2
       /\ lastOp.name \in {"init", "clamp"}
       /\ ClearOutOfBoundsCells
       /\ UNCHANGED others

SpecStore == InitStore /\ [][NextStore]_vars

\* handleCellToggle as a function of its arguments: the handler takes any
\* pair of numbers, also one that is no cell of the grid (the grid itself
\* calls it for its own cells only).
CallCellToggle == \E row \in (-1)..MaxCount, col \in (-1)..MaxCount :
                     HandleCellToggle(row, col)

NextToggle == historyIndex = 0 /\ CallCellToggle /\ UNCHANGED others

SpecToggle == InitStore /\ [][NextToggle]_vars

\* ------------------------------------------------------------ properties
CommitOps == {"toggle", "clamp", "clearAll", "fill"}
Top == history[Len(history)]

\* C1: in every state reached by toggle, clear-all, clear-out-of-bounds,
\* fill-enclosed, undo, redo and restoreHistory(index), the history is not
\* empty and the pointer is one of its indices: 0 <= historyIndex < length.
PointerValid ==
    /\ Len(history) >= 1
    /\ 0 <= historyIndex
    /\ historyIndex < Len(history)

\* A restore has just moved the pointer into the middle of a history that a
\* commit had pruned before.
PointerValidWitness ==
    /\ lastOp.name = "restore"
    /\ pruned # {}
    /\ Len(history) >= 3
    /\ historyIndex = 1
    /\ pre.index = 2

\* The store and the label a handler hands to updateHistory, from the state
\* it runs in.
CommittedCells(op) ==
    CASE op.name = "toggle" ->
           IF ToggleMatches(MapGet(cellStates, Key(op.row, op.col)),
                            selectedColor, showOutline)
           THEN MapDelete(cellStates, Key(op.row, op.col))
           ELSE MapSet(cellStates, Key(op.row, op.col),
                       [color |-> selectedColor, hasOutline |-> showOutline])
      [] op.name = "clamp" -> ClampCells(cellStates, rowCount, colCount)
      [] op.name = "clearAll" -> EmptyMap
      [] op.name = "fill" -> FillCells(cellStates, rowCount, colCount,
                                       selectedColor, showOutline)

CommittedLabel(op) ==
    CASE op.name = "toggle" ->
           IF ToggleMatches(MapGet(cellStates, Key(op.row, op.col)),
                            selectedColor, showOutline)
           THEN <<"Cleared cell", op.row, op.col>>
           ELSE <<"Colored cell", op.row, op.col, selectedColor>>
      [] op.name = "clamp" -> <<"Cleared out-of-bounds cells">>
      [] op.name = "clearAll" -> <<"Cleared all cells">>
      [] op.name = "fill" -> <<"Filled enclosed areas">>

\* C2: a commit from pointer p and sequence s yields a sequence of length
\* p+2 whose first p+1 entries are s[0..p], whose last entry holds the
\* committed store and label; the new pointer is p+1, the last index, and the
\* current store read afterwards is the committed store.
CommitAppends ==
    [][lastOp'.name \in CommitOps =>
         /\ Len(history') = historyIndex + 2
         /\ \A i \in 1..(historyIndex + 1) : history'[i] = history[i]
         /\ history'[Len(history')].cells = CommittedCells(lastOp')
         /\ history'[Len(history')].lastAction = CommittedLabel(lastOp')
         /\ historyIndex' = historyIndex + 1
         /\ historyIndex' = Len(history') - 1
         /\ cellStates' = CommittedCells(lastOp')
      ]_vars

\* A commit has run from a pointer in the middle of the history: it kept two
\* entries and dropped at least one.
CommitAppendsWitness ==
    /\ lastOp.name \in CommitOps
    /\ pre.index = 1
    /\ pre.len >= 3
    /\ Len(history) = 3
    /\ historyIndex = 2

\* No entry of the sequence is one that a commit found beyond the pointer.
PrunedGone == \A i \in 1..Len(history) : history[i].id \notin pruned

\* C3: after a commit made while the pointer is below the last index, redo
\* is a no-op, and no snapshot that lay beyond the pointer is in the sequence
\* then or in any later state, so no undo, redo or restore reaches it.
BranchPruned ==
    /\ []PrunedGone
    /\ [][(/\ lastOp.name \in CommitOps
           /\ pre.index < pre.len - 1
           /\ lastOp'.name = "redo")
          => UNCHANGED <<history, historyIndex>>]_vars

\* Commits A, B, C, two steps back, commit D, and a redo right after it: the
\* history is initial, A, D; B and C are dropped.
BranchPrunedWitness ==
    /\ lastOp.name = "redo"
    /\ lastOp.after \in CommitOps
    /\ Len(history) = 3
    /\ historyIndex = 2
    /\ Top.id = 4
    /\ pruned = {2, 3}

\* The 1 x 1 grid after a toggle of (0,0) on the empty store and an undo.
ToggledThenUndone ==
    /\ rowCount = 1
    /\ colCount = 1
    /\ Len(history) = 2
    /\ history[1].cells = EmptyMap
    /\ history[2].lastAction = <<"Colored cell", 0, 0, selectedColor>>
    /\ lastOp.name = "undo"
    /\ pre.index = 1

\* C4: undo followed by redo returns to the snapshot undo started from, the
\* same pointer and the same store, from every state a sequence of commits
\* leads to (the pointer is above 0, or the history is the initial entry
\* alone); on a 1 x 1 grid, after toggling (0,0), undo shows the empty store
\* and redo a store with (0,0) in it.
UndoRedoRoundTrip ==
    /\ [][(/\ lastOp.name = "undo"
           /\ (pre.index > 0 \/ Len(history) = 1)
           /\ lastOp'.name = "redo")
          => /\ historyIndex' = pre.index
             /\ history' = history
             /\ cellStates' = history[pre.index + 1].cells]_vars
    /\ [](ToggledThenUndone => cellStates = EmptyMap)
    /\ [][ToggledThenUndone /\ lastOp'.name = "redo"
          => MapHas(cellStates', Key(0, 0))]_vars

\* The redo of the 1 x 1 scenario has run, right after the undo.
UndoRedoRoundTripWitness ==
    /\ lastOp.name = "redo"
    /\ lastOp.after = "undo"
    /\ rowCount = 1
    /\ colCount = 1
    /\ Len(history) = 2
    /\ pre.index = 0
    /\ historyIndex = 1
    /\ MapHas(cellStates, Key(0, 0))

\* ---- the store handlers, on a drawn store (SpecStore, SpecFill)
\* The paint attributes of the current settings.
PaintAttrs == [color |-> selectedColor, hasOutline |-> showOutline]

\* The same cell has been clicked twice in a row, on the drawn store.
ToggledTwice ==
    /\ historyIndex = 2
    /\ lastOp.name = "toggle"
    /\ history[2].lastAction[2] = lastOp.row
    /\ history[2].lastAction[3] = lastOp.col
    /\ history[3].lastAction[2] = lastOp.row
    /\ history[3].lastAction[3] = lastOp.col

\* C5 as stated: toggling a cell twice with the same attributes restores the
\* original store, for every starting store.
ToggleTwiceRestores ==
    ToggledTwice => history[3].cells = history[1].cells

\* C5: toggling cell c twice with the same attributes a restores the
\* original store when c held no record or a record equal to a; when c held
\* a record that differs from a, the two toggles remove it and leave every
\* other record as it was.
ToggleTwice ==
    ToggledTwice =>
        LET key == Key(lastOp.row, lastOp.col)
            orig == history[1].cells
        IN  IF key \in DOMAIN orig /\ orig[key] # PaintAttrs
            THEN history[3].cells = [k \in (DOMAIN orig) \ {key} |-> orig[k]]
            ELSE history[3].cells = orig

\* Two toggles of a cell that held the paint attributes, in a store with
\* another record: the store is back.
ToggleTwiceWitness ==
    /\ ToggledTwice
    /\ Key(lastOp.row, lastOp.col) \in DOMAIN history[1].cells
    /\ history[1].cells[Key(lastOp.row, lastOp.col)] = PaintAttrs
    /\ Cardinality(DOMAIN history[1].cells) = 2
    /\ history[3].cells = history[1].cells

\* C6: toggle removes the record at the coordinate if and only if one is
\* there with both attributes equal to the paint attributes; otherwise the
\* coordinate holds the paint attributes afterwards; no other coordinate
\* changes.
ToggleEffect ==
    (historyIndex = 1 /\ lastOp.name = "toggle") =>
        LET key == Key(lastOp.row, lastOp.col)
            orig == history[1].cells
            new == history[2].cells
        IN  /\ key \notin DOMAIN new
                <=> (key \in DOMAIN orig /\ orig[key] = PaintAttrs)
            /\ key \in DOMAIN new => new[key] = PaintAttrs
            /\ (DOMAIN new) \ {key} = (DOMAIN orig) \ {key}
            /\ \A k \in (DOMAIN orig) \ {key} : new[k] = orig[k]

\* A cell of another color has been repainted, beside another record.
ToggleEffectWitness ==
    /\ historyIndex = 1
    /\ lastOp.name = "toggle"
    /\ Key(lastOp.row, lastOp.col) \in DOMAIN history[1].cells
    /\ history[1].cells[Key(lastOp.row, lastOp.col)].color # selectedColor
    /\ history[1].cells[Key(lastOp.row, lastOp.col)].hasOutline = showOutline
    /\ history[2].cells[Key(lastOp.row, lastOp.col)] = PaintAttrs
    /\ Cardinality(DOMAIN history[2].cells) = 2

\* C10: clamp yields exactly the records of the current store whose
\* coordinate has 0 <= row < rowCount and 0 <= col < colCount, each with its
\* attributes unchanged.
ClampKeepsInBounds ==
    (historyIndex = 1 /\ lastOp.name = "clamp") =>
        LET orig == history[1].cells
            new == history[2].cells
        IN  /\ DOMAIN new = {k \in DOMAIN orig : /\ 0 <= k[1]
                                                 /\ k[1] < rowCount
                                                 /\ 0 <= k[2]
                                                 /\ k[2] < colCount}
            /\ \A k \in DOMAIN new : new[k] = orig[k]

\* The columns were cut to one: a record of a further column is gone, one
\* of the first column is kept.
ClampKeepsInBoundsWitness ==
    /\ historyIndex = 1
    /\ lastOp.name = "clamp"
    /\ colCount = 1
    /\ rowCount = MaxCount
    /\ \E k \in DOMAIN history[1].cells : k[2] >= 1
    /\ Cardinality(DOMAIN history[1].cells) = 2
    /\ Cardinality(DOMAIN history[2].cells) = 1

\* ---- flood fill against its definition
\* The inactive cells of the grid, the cells next to a cell, the perimeter.
InactiveCells(cells, rc, cc) ==
    {k \in (0..(rc - 1)) \X (0..(cc - 1)) : k \notin DOMAIN cells}

Neighbours(k) ==
    {<<k[1] - 1, k[2]>>, <<k[1] + 1, k[2]>>, <<k[1], k[2] - 1>>, <<k[1], k[2] + 1>>}

OnPerimeter(k, rc, cc) ==
    k[1] = 0 \/ k[1] = rc - 1 \/ k[2] = 0 \/ k[2] = cc - 1

\* The cells of free that a 4-connected path through free joins to S.
RECURSIVE Spread(_, _)
Spread(S, free) ==
    LET more == S \cup {k \in free : Neighbours(k) \cap S # {}}
    IN  IF more = S THEN S ELSE Spread(more, free)

\* The inactive cells whose region holds a perimeter cell, and the others.
OpenCells(cells, rc, cc) ==
    LET free == InactiveCells(cells, rc, cc)
    IN  Spread({k \in free : OnPerimeter(k, rc, cc)}, free)

EnclosedCells(cells, rc, cc) ==
    InactiveCells(cells, rc, cc) \ OpenCells(cells, rc, cc)

FilledOnce == historyIndex = 1 /\ lastOp.name = "fill"

\* An inactive cell of the grid is active after the fill, with the paint
\* attributes, if and only if its region holds no perimeter cell.
FillIsReference ==
    FilledOnce =>
        LET enclosed == EnclosedCells(history[1].cells, rowCount, colCount)
            new == history[2].cells
        IN  /\ {k \in InactiveCells(history[1].cells, rowCount, colCount) :
                    k \in DOMAIN new} = enclosed
            /\ \A k \in enclosed : new[k] = PaintAttrs

\* The perimeter of the 3 x 3 grid, its corners and its centre.
Perimeter3 == {k \in Universe(3) : k # <<1, 1>>}
Corners3 == {<<0, 0>>, <<0, 2>>, <<2, 0>>, <<2, 2>>}
Grid3 == rowCount = 3 /\ colCount = 3

\* The 3 x 3 grid with its eight perimeter cells active gets its centre
\* activated.
FillClosed3 ==
    (FilledOnce /\ Grid3 /\ DOMAIN history[1].cells = Perimeter3)
        => <<1, 1>> \in DOMAIN history[2].cells

\* C7 as stated: the fill matches the definition, the closed 3 x 3 grid gets
\* its centre activated, and with one perimeter cell deactivated, whichever,
\* the centre stays inactive.
FillMatchesAnyGap ==
    /\ FillIsReference
    /\ FillClosed3
    /\ \A p \in Perimeter3 :
          (FilledOnce /\ Grid3 /\ DOMAIN history[1].cells = Perimeter3 \ {p})
              => <<1, 1>> \notin DOMAIN history[2].cells

\* C7: the fill matches the definition (an inactive cell of the grid becomes
\* active, with the paint attributes, if and only if its maximal 4-connected
\* region of inactive cells holds no perimeter cell); the closed 3 x 3 grid
\* gets its centre activated; with one perimeter cell that is no corner
\* deactivated the centre stays inactive, and with a corner deactivated the
\* centre is activated all the same, as no corner is 4-adjacent to it.
FillMatches ==
    /\ FillIsReference
    /\ FillClosed3
    /\ \A p \in Perimeter3 :
          (FilledOnce /\ Grid3 /\ DOMAIN history[1].cells = Perimeter3 \ {p})
              => (<<1, 1>> \in DOMAIN history[2].cells <=> p \in Corners3)

\* The fill has run on the 3 x 3 grid with the perimeter active but for the
\* cell above the centre: the centre is left inactive.
FillMatchesWitness ==
    /\ FilledOnce
    /\ Grid3
    /\ DOMAIN history[1].cells = Perimeter3 \ {<<0, 1>>}
    /\ <<1, 1>> \notin DOMAIN history[2].cells

\* C8: the fill removes no record and changes the attributes of no cell
\* that was active, in the grid or out of it, and the cells of open regions
\* stay inactive.
FillKeepsRecords ==
    FilledOnce =>
        /\ \A k \in DOMAIN history[1].cells :
              /\ k \in DOMAIN history[2].cells
              /\ history[2].cells[k] = history[1].cells[k]
        /\ \A k \in OpenCells(history[1].cells, rowCount, colCount) :
              k \notin DOMAIN history[2].cells

\* A fill with other paint attributes than the records have has activated a
\* cell, in a store with a record out of the grid and an open region.
FillKeepsRecordsWitness ==
    /\ FilledOnce
    /\ <<0, FillCount>> \in DOMAIN history[1].cells
    /\ history[1].cells[<<0, FillCount>>] # PaintAttrs
    /\ DOMAIN history[2].cells # DOMAIN history[1].cells
    /\ OpenCells(history[1].cells, rowCount, colCount) # {}

\* C9: a second fill in a row, with the same grid size and paint attributes,
\* leaves the current store as the first fill made it.
FillTwiceSame ==
    (historyIndex = 2 /\ lastOp.name = "fill")
        => history[3].cells = history[2].cells

\* Two fills have run, and the first one activated a cell.
FillTwiceSameWitness ==
    /\ historyIndex = 2
    /\ lastOp.name = "fill"
    /\ history[2].lastAction = <<"Filled enclosed areas">>
    /\ history[3].lastAction = <<"Filled enclosed areas">>
    /\ history[2].cells # history[1].cells

\* C11: clamping is idempotent: a second clearOutOfBoundsCells in a row, with
\* rowCount and colCount unchanged, leaves the current store as the first
\* clamp made it.
ClampTwiceSame ==
    (historyIndex = 2 /\ lastOp.name = "clamp")
        => /\ history[3].cells = history[2].cells
           /\ cellStates = history[2].cells

\* Two clamps have run on a store with a record out of the grid and one in
\* it: the first clamp dropped a record, the second none.
ClampTwiceSameWitness ==
    /\ historyIndex = 2
    /\ lastOp.name = "clamp"
    /\ history[2].lastAction = <<"Cleared out-of-bounds cells">>
    /\ history[2].cells # history[1].cells
    /\ history[2].cells # EmptyMap

\* ---- the moves of the pointer (SpecHist)
\* C12: undo from a pointer above 0 decrements the pointer by exactly one;
\* at pointer 0 it is a no-op; either way the sequence is unchanged.
UndoStep ==
    [][lastOp'.name = "undo" =>
         /\ historyIndex' = IF historyIndex > 0
                             THEN historyIndex - 1
                             ELSE historyIndex
         /\ history' = history
      ]_vars

\* An undo has run at pointer 0 of a history of three entries or more, and
\* has left the pointer there.
UndoStepWitness ==
    /\ lastOp.name = "undo"
    /\ pre.index = 0
    /\ historyIndex = 0
    /\ Len(history) >= 3

\* C13: redo from a pointer below the last index increments the pointer by
\* exactly one; at the last index it is a no-op; either way the sequence is
\* unchanged.
RedoStep ==
    [][lastOp'.name = "redo" =>
         /\ historyIndex' = IF historyIndex < Len(history) - 1
                             THEN historyIndex + 1
                             ELSE historyIndex
         /\ history' = history
      ]_vars

\* A redo has run two entries below the last one, and has moved the pointer
\* one entry up, not to the last.
RedoStepWitness ==
    /\ lastOp.name = "redo"
    /\ pre.index = 0
    /\ historyIndex = 1
    /\ Len(history) >= 3

\* C14: restoreHistory(index) with 0 <= index < length sets the pointer to
\* index; with any other index, negative or at least the length, it leaves
\* the pointer, the sequence, the current store and the settings unchanged.
RestoreStep ==
    [][lastOp'.name = "restore" =>
         IF 0 <= lastOp'.index /\ lastOp'.index < Len(history)
         THEN /\ historyIndex' = lastOp'.index
              /\ history' = history
         ELSE /\ historyIndex' = historyIndex
              /\ history' = history
              /\ cellStates' = cellStates
              /\ config' = config
      ]_vars

\* restoreHistory(-1) has run from the last of three entries or more, and
\* has left the pointer there.
RestoreStepWitness ==
    /\ lastOp.name = "restore"
    /\ lastOp.index = -1
    /\ Len(history) >= 3
    /\ pre.index = Len(history) - 1
    /\ historyIndex = pre.index

\* ---- clear all (SpecHist)
\* C15 as stated: clear-all commits two snapshots, the store before the clear
\* and then the empty store: from pointer p the sequence gets length p+3 and
\* the pointer p+2.
ClearAllTwoSnapshots ==
    lastOp.name = "clearAll" =>
        /\ Len(history) = pre.index + 3
        /\ historyIndex = pre.index + 2
        /\ history[pre.index + 2].cells = lastOp.before
        /\ Top.cells = EmptyMap

\* C15: clear-all commits one snapshot, the empty store, on top of the entry
\* that was current, which holds the store before the clear: from pointer p
\* the sequence gets length p+2 and the pointer p+1.
ClearAllOneSnapshot ==
    lastOp.name = "clearAll" =>
        /\ Len(history) = pre.index + 2
        /\ historyIndex = pre.index + 1
        /\ history[pre.index + 1].cells = lastOp.before
        /\ Top.cells = EmptyMap
        /\ Top.lastAction = <<"Cleared all cells">>

\* A clear-all has run on a non-empty store, from a pointer below the last
\* index.
ClearAllOneSnapshotWitness ==
    /\ lastOp.name = "clearAll"
    /\ lastOp.before # EmptyMap
    /\ pre.index = 1
    /\ pre.len = 3
    /\ Len(history) = 3

\* An undo has run from the last entry, which a clear-all committed.  No
\* commit has run since that clear-all (its entry would not be the last), so
\* this is the state a clear-all and one undo lead to.
ClearedThenUndone ==
    /\ lastOp.name = "undo"
    /\ pre.index = Len(history) - 1
    /\ historyIndex = pre.index - 1
    /\ Top.lastAction = <<"Cleared all cells">>

\* C16: after clear-all the current store is empty; one undo from there
\* shows a store equal to the one that was current right before the clear;
\* one more undo moves the pointer one step down, or is a no-op at pointer 0.
ClearAllUndo ==
    /\ [](lastOp.name = "clearAll" => cellStates = EmptyMap)
    /\ [][(lastOp.name = "clearAll" /\ lastOp'.name = "undo")
          => /\ cellStates' = lastOp.before
             /\ historyIndex' = pre.index]_vars
    /\ [][(ClearedThenUndone /\ lastOp'.name = "undo")
          => /\ historyIndex' = IF historyIndex > 0
                                 THEN historyIndex - 1
                                 ELSE historyIndex
             /\ history' = history]_vars

\* Two undos have run from a cleared state whose store before the clear was
\* not empty: the pointer is two entries below the clear-all's.
ClearAllUndoWitness ==
    /\ lastOp.name = "undo"
    /\ Len(history) >= 3
    /\ Top.lastAction = <<"Cleared all cells">>
    /\ history[Len(history) - 1].cells # EmptyMap
    /\ pre.index = Len(history) - 2
    /\ historyIndex = Len(history) - 3

\* ---- toggle with any coordinate (SpecToggle)
\* C17: a toggle with a coordinate outside [0,rowCount) x [0,colCount) is a
\* no-op: the store, the history sequence and the pointer are as they were.
ToggleOutOfRangeNoOp ==
    (lastOp.name = "toggle" /\ ~IsValid(lastOp.row, lastOp.col, rowCount, colCount))
        => /\ historyIndex = pre.index
           /\ Len(history) = pre.len
           /\ cellStates = history[pre.index + 1].cells

\* ---- the entries of the history (SpecHist)
\* C18: a snapshot, once pushed, is never mutated: across every step of
\* toggle, clamp, fill, clear-all, undo, redo and restoreHistory, an entry
\* that is in the sequence before and after is at the same index and has
\* the same cell mapping and the same label.
SnapshotsFrozen ==
    [][\/ history' = history
       \/ LET before == {history[i].id : i \in 1..Len(history)}
          IN  \A j \in 1..Len(history') :
                 history'[j].id \in before
                     => /\ j <= Len(history)
                        /\ history[j].id = history'[j].id
                        /\ history'[j].cells = history[j].cells
                        /\ history'[j].lastAction = history[j].lastAction
      ]_vars

\* A commit has run from the middle of a history of three entries: two
\* entries stayed, with stores that differ from each other and from the
\* store of the commit before them, and the third was replaced.
SnapshotsFrozenWitness ==
    /\ lastOp.name \in CommitOps
    /\ pre.index = 1
    /\ pre.len = 3
    /\ pruned # {}
    /\ history[2].cells # history[1].cells
    /\ history[3].cells # history[2].cells

\* C20: the history sequence changes only through commit: undo, redo and
\* restoreHistory leave it unchanged, entry by entry; a step that changes it
\* is a commit (toggle, clamp, clear-all or fill); it grows by a commit only,
\* and it shrinks only by the truncation of a commit made below the last
\* index, to the entries up to the pointer and the new one.
HistoryOnlyByCommit ==
    [][/\ lastOp'.name \in {"undo", "redo", "restore"} => history' = history
       /\ history' # history =>
            /\ lastOp'.name \in CommitOps
            /\ Len(history') > Len(history)
                  => /\ Len(history') = Len(history) + 1
                     /\ historyIndex = Len(history) - 1
            /\ Len(history') < Len(history)
                  => /\ historyIndex < Len(history) - 2
                     /\ Len(history') = historyIndex + 2
      ]_vars

\* A commit made at the first of four entries has cut the sequence to two.
HistoryOnlyByCommitWitness ==
    /\ lastOp.name \in CommitOps
    /\ pre.index = 0
    /\ pre.len = 4
    /\ Len(history) = 2
    /\ historyIndex = 1

\* C23: the initial snapshot is never lost: the first entry of the history
\* is the entry the component started with, the empty store labelled
\* "Initial state"; the store is empty whenever the pointer is 0, each undo
\* above 0 takes the pointer one step towards it, and restoreHistory(0)
\* takes it there at once.
InitialKept ==
    /\ [](history[1] = InitialEntry)
    /\ [](historyIndex = 0 => cellStates = EmptyMap)
    /\ [][/\ (lastOp'.name = "undo" /\ historyIndex > 0)
               => historyIndex' = historyIndex - 1
          /\ (lastOp'.name = "restore" /\ lastOp'.index = 0)
               => (historyIndex' = 0 /\ cellStates' = EmptyMap)
         ]_vars

\* restoreHistory(0) has run from the last of four entries or more, of a
\* history that a commit had pruned, with a store that was not empty.
InitialKeptWitness ==
    /\ lastOp.name = "restore"
    /\ lastOp.index = 0
    /\ historyIndex = 0
    /\ Len(history) >= 4
    /\ pre.index = Len(history) - 1
    /\ Top.cells # EmptyMap
    /\ pruned # {}

\* A commit has run that left the store as it was.
SameStoreCommitted ==
    /\ lastOp.name \in CommitOps
    /\ Top.cells = history[pre.index + 1].cells

\* C24: every toggle, clear-out-of-bounds, fill-enclosed and clear-all
\* appends exactly one entry: from pointer p the length becomes p+2 and the
\* pointer p+1, with a new entry on top, also when the store it commits
\* equals the current one; none of them leaves the history as it was.
CommitAlways ==
    [][lastOp'.name \in CommitOps =>
         /\ Len(history') = historyIndex + 2
         /\ historyIndex' = historyIndex + 1
         /\ history' # history
         /\ history'[Len(history')].id = nextId
         /\ nextId' = nextId + 1
      ]_vars

\* A clamp with nothing out of bounds has committed the store it found, as
\* a new entry on top of two.
CommitAlwaysWitness ==
    /\ SameStoreCommitted
    /\ lastOp.name = "clamp"
    /\ Top.cells # EmptyMap
    /\ pre.index = 1
    /\ historyIndex = 2
    /\ Len(history) = 3

\* ---- the store and the size of the grid (SpecGrid)
InGrid(k, rc, cc) == 0 <= k[1] /\ k[1] < rc /\ 0 <= k[2] /\ k[2] < cc

\* C19: the store is clamped whenever the grid shrinks, so in every state
\* every record of the current snapshot has 0 <= row < rowCount and
\* 0 <= col < colCount, also after undo, redo and jumpTo following a resize.
\* handleRowCountChange and handleColCountChange only set the count: a
\* record beyond the new bounds stays until clearOutOfBoundsCells is run.
RecordsInGrid ==
    \A k \in DOMAIN cellStates : InGrid(k, rowCount, colCount)

\* ---- flood fill in other orders (SpecOrder)
FilledInOrder == historyIndex = 1 /\ lastOp.name = "fillOrdered"

\* C21: for a fixed store, grid size and paint attributes, the fill yields
\* the same store whatever the order of the four directions in dfs and
\* whatever the order of the scan: the store it yields in the code's order
\* (up, down, left, right; row-major), which is the store fillEnclosedAreas
\* commits.
FillOrderFree ==
    FilledInOrder =>
        /\ history[2].cells =
              FillCellsOrdered(history[1].cells, rowCount, colCount,
                               selectedColor, showOutline,
                               Directions, RowMajor(rowCount, colCount))
        /\ history[2].cells =
              FillCells(history[1].cells, rowCount, colCount,
                        selectedColor, showOutline)

\* A fill has run with right as its first direction and the scan from the
\* last cell to the first, on a store with an open region in which a
\* traversal gave up with two cells or more visited.
FillOrderFreeWitness ==
    /\ FilledInOrder
    /\ lastOp.dirs[1] = <<0, 1>>
    /\ lastOp.scan = Reverse(RowMajor(rowCount, colCount))
    /\ \E k \in OpenCells(history[1].cells, rowCount, colCount) :
          LET r == DfsOrdered(k[1], k[2], NewRun, history[1].cells,
                              rowCount, colCount, lastOp.dirs)
          IN  ~r.ok /\ Cardinality(r.visited) >= 2

\* C22: the fill terminates: a traversal from any start cell adds a
\* coordinate to visited before it recurses from it and recurses from no
\* visited, active or out-of-bounds coordinate, so it expands no coordinate
\* twice, at most rowCount * colCount of them, all inactive cells of the
\* grid, in at most four calls for each and one for the start; and the scan
\* starts once from each cell of the grid.
FillBounded ==
    FilledInOrder =>
        /\ \A k \in Universe(FillCount) :
              LET r == DfsOrdered(k[1], k[2], NewRun, history[1].cells,
                                  rowCount, colCount, lastOp.dirs)
              IN  /\ r.expanded = Cardinality(r.visited)
                  /\ r.expanded <= rowCount * colCount
                  /\ r.visited \subseteq
                        InactiveCells(history[1].cells, rowCount, colCount)
                  /\ r.calls <= 4 * r.expanded + 1
        /\ Len(RowMajor(rowCount, colCount)) = rowCount * colCount
        /\ \A k \in (0..(rowCount - 1)) \X (0..(colCount - 1)) :
              Cardinality({i \in 1..Len(lastOp.scan) : lastOp.scan[i] = k}) = 1

\* A fill has run on a store with a region of three inactive cells, which a
\* traversal has expanded in full.
FillBoundedWitness ==
    /\ FilledInOrder
    /\ \E k \in Universe(FillCount) :
          LET r == DfsOrdered(k[1], k[2], NewRun, history[1].cells,
                              rowCount, colCount, lastOp.dirs)
          IN  r.expanded = 3 /\ r.calls > 4

\* ---- the settings (SpecConfig)
SettingOps == {"rowCount", "colCount", "cellSize", "color", "outline"}

\* The value a guarded setting has after a request for v.
Guarded(v, lo, hi, old) == IF lo <= v /\ v <= hi THEN v ELSE old

\* C25: a change of the grid configuration is guarded and history-neutral:
\* a requested rowCount or colCount outside the range of its slider, or a
\* cellSize outside 10..100, leaves the value as it is; an accepted one, like
\* a change of the selected color or of the outline flag, changes that
\* setting alone; and none changes the history sequence, the pointer or the
\* current store.
ConfigNeutral ==
    [][lastOp'.name \in SettingOps =>
         /\ history' = history
         /\ historyIndex' = historyIndex
         /\ cellStates' = cellStates
         /\ rowCount' = IF lastOp'.name = "rowCount"
                         THEN Guarded(lastOp'.value, MinCount, MaxCount, rowCount)
                         ELSE rowCount
         /\ colCount' = IF lastOp'.name = "colCount"
                         THEN Guarded(lastOp'.value, MinCount, MaxCount, colCount)
                         ELSE colCount
         /\ cellSize' = IF lastOp'.name = "cellSize"
                         THEN Guarded(lastOp'.value, 10, 100, cellSize)
                         ELSE cellSize
         /\ selectedColor' = IF lastOp'.name = "color"
                              THEN lastOp'.value
                              ELSE selectedColor
         /\ showOutline' = IF lastOp'.name = "outline"
                            THEN ~showOutline
                            ELSE showOutline
      ]_vars

\* A cell size of 101 has been asked for and refused, after one of 10 was
\* accepted, with a record in the store.
ConfigNeutralWitness ==
    /\ lastOp.name = "cellSize"
    /\ lastOp.value = 101
    /\ cellSize = 10
    /\ historyIndex = 1
    /\ cellStates # EmptyMap

\* ---- the list of App.tsx (SpecApp)
\* C26: after any sequence of clickCell calls no two entries of
\* selectedCells have the same (row, col); a click on a selected cell
\* removes that one entry, a click on an unselected cell appends one entry,
\* and the other entries keep their order.
SelectedUnique ==
    /\ [](\A i, j \in 1..Len(selectedCells) :
             selectedCells[i] = selectedCells[j] => i = j)
    /\ [][lastOp'.name = "clickCell" =>
             LET c == <<lastOp'.row, lastOp'.col>>
             IN  IF \E i \in 1..Len(selectedCells) : selectedCells[i] = c
                 THEN /\ Len(selectedCells') = Len(selectedCells) - 1
                      /\ selectedCells' = SelectSeq(selectedCells, LAMBDA x : x # c)
                 ELSE selectedCells' = Append(selectedCells, c)
         ]_vars

\* A click on (0,1) has removed it from between (0,0) and (1,1).
SelectedUniqueWitness ==
    /\ lastOp.name = "clickCell"
    /\ lastOp.row = 0
    /\ lastOp.col = 1
    /\ selectedCells = << <<0, 0>>, <<1, 1>> >>

\* ---- the two editors side by side (SpecPair)
\* C27: with the selected color and the outline flag left alone, the same
\* toggles, clear-out-of-bounds, fills and resizes on map.tsx and on
\* part_001 keep the key set of map.tsx's current snapshot equal to
\* part_001's selectedCells after every step.
KeySetsAgree == DOMAIN cellStates = selectedSet

\* The corner was toggled off, and the fill then selected the enclosed
\* centre in both editors.
KeySetsAgreeWitness ==
    /\ lastOp.name = "fill"
    /\ historyIndex = 2
    /\ <<1, 1>> \notin DOMAIN history[2].cells
    /\ <<1, 1>> \in selectedSet
    /\ <<0, 0>> \notin selectedSet

\* ---- two handlers before the next render (SpecBatch)
\* C28: the pointer is an index of the history also after two handlers
\* (two commits, two undos, two redos, or a mix) have run against the same
\* render, their guards and their slice reading the pointer and the length
\* of that render and the pointer being updated from its previous value.
PointerValidBatched == lastOp.name = "batch" => Rendered

====
